---------------------------- MODULE Spec2Model ----------------------------
(***************************************************************************)
(* Model of backpacking-ecology-app-fixed.py: the itinerary generator      *)
(* (create_daily_itinerary), the gear recommendation engine                *)
(* (generate_gear_recommendations), the four cached fetch wrappers and the *)
(* Map & Trails tab of a script run.                                       *)
(*                                                                         *)
(* Numbers.  The source computes with Python floats.  The model keeps the  *)
(* exact rational value of every quantity as a pair [num, den] of          *)
(* integers.  Distances are counted in tenths of a kilometre, the unit of  *)
(* round(x, 1).  round(x, 1) returns a neighbour of x on the 0.1 grid; on  *)
(* an exact decimal tie the neighbour Python returns depends on the binary *)
(* representation error of x, so the model allows either neighbour there.  *)
(***************************************************************************)
EXTENDS Integers, Sequences, FiniteSets, TLC

VARIABLES
    pc,                 \* position of the running function
    \* create_daily_itinerary: arguments and locals
    total_distance,     \* argument, in tenths of a kilometre
    trip_days,          \* argument (shared with the gear engine)
    waypoints,          \* argument, by truthiness (None / [] are FALSE)
    avg_daily_distance, \* local, rational in tenths of a kilometre
    day,                \* loop variable of range(1, trip_days + 1)
    itinerary,          \* local list, returned at the end
    \* generate_gear_recommendations: arguments and locals
    weather_data,
    season,
    terrain,
    avg_min,
    avg_max,
    total_precip,
    gear_list,
    \* fetch wrappers
    cache,              \* st.cache_data memo of each wrapper
    call,               \* the last wrapper call: function, argument, outcome
    \* Map & Trails tab of one script run
    osm_data,           \* what fetch_trails_from_osm returned
    trail_count,        \* <<>> while the name is unbound, <<n>> once assigned
    markers,            \* popups of the markers added to the map, in order
    shown               \* what the pass displayed below the map

vars == <<pc, total_distance, trip_days, waypoints, avg_daily_distance, day,
          itinerary, weather_data, season, terrain, avg_min, avg_max,
          total_precip, gear_list, cache, call, osm_data, trail_count,
          markers, shown>>

itinVars == <<total_distance, trip_days, waypoints, avg_daily_distance, day,
              itinerary>>
gearVars == <<weather_data, season, terrain, avg_min, avg_max, total_precip,
              gear_list>>
fetchVars == <<cache, call>>
mapVars == <<osm_data, trail_count, markers, shown>>

(***************************************************************************)
(* Bounds of the model.                                                    *)
(***************************************************************************)
MaxDays == 4        \* trip_days ranges over 1..MaxDays
MaxDist == 300      \* total_distance ranges over 0..MaxDist tenths of a km
MaxLen  == 2        \* longest per-day list of the weather data
MaxRun  == 21       \* longest run of equal elements in an Overpass response

\* Python values the fetch wrappers return
None     == [py |-> "None"]
NoneNone == [py |-> "(None, None)"]
Coords(lat, lon) == [py |-> "(lat, lon)", latitude |-> lat, longitude |-> lon]
Json(data) == [py |-> "json", data |-> data]

(***************************************************************************)
(* Rational arithmetic and rounding.                                       *)
(***************************************************************************)
Rat(n, d) == [num |-> n, den |-> d]

\* the parity convention reversed: (-1) ** (day + 1)
MinusOnePowFlipped(d) == IF d % 2 = 0 THEN -1 ELSE 1

\* (-1) ** day
MinusOnePow(d) == IF d % 2 = 0 THEN 1 ELSE -1

\* round(x, 1) for x = num / den tenths, den > 0, num >= 0: the results, in
\* tenths, that Python's round can return (both neighbours on an exact tie).
RoundSet(x) ==
    LET q == x.num \div x.den
        r == x.num % x.den
    IN  IF 2 * r < x.den THEN {q}
        ELSE IF 2 * r > x.den THEN {q + 1}
        ELSE {q, q + 1}

(***************************************************************************)
(* The fetch wrappers: get_location_coords, fetch_trails_from_osm,         *)
(* fetch_weather_data, fetch_air_quality, each under @st.cache_data.       *)
(*                                                                         *)
(* The collaborator's behaviour on a call is its outcome: the geocoder     *)
(* raises, finds nothing or finds a location; requests.get raises or       *)
(* returns a response with a status code and a body that decodes as JSON   *)
(* or does not (response.json() raises).  The result of running a piece    *)
(* of code is either a returned value or a raised exception.  The          *)
(* Nominatim(user_agent="backpacking_app") constructor of line 42, which   *)
(* stands outside the try block, makes no request and is taken not to      *)
(* raise.                                                                  *)
(***************************************************************************)
Wrappers == {"get_location_coords", "fetch_trails_from_osm",
             "fetch_weather_data", "fetch_air_quality"}

\* arguments the wrappers are called with: location names for the geocoder,
\* (lat, lon) pairs for the three HTTP wrappers
LocationNames == {"Yosemite National Park", "Atlantis"}
Coordinates   == {<<37, -119>>}
Args(f) == IF f = "get_location_coords" THEN LocationNames ELSE Coordinates

Locations   == {Coords(37, -119), Coords(46, 7)}
StatusCodes == {200, 404, 429, 504}
Bodies      == {"elements", "malformed"}

GeocodeOutcomes ==
    {[kind |-> "raises"], [kind |-> "not found"]} \cup
    {[kind |-> "found", location |-> l] : l \in Locations}

HttpOutcomes ==
    {[kind |-> "raises"]} \cup
    {[kind |-> "response", status_code |-> c, body |-> b] :
        c \in StatusCodes, b \in Bodies}

Returned(v) == [raised |-> FALSE, value |-> v]
Raised      == [raised |-> TRUE, value |-> None]

\* a try block whose exceptions are not caught
ExceptNothing(r, v) == r

\* try: <r> except: return v
Except(r, v) == IF r.raised THEN Returned(v) ELSE r

\* response.json()
DecodeJson(body) == IF body = "malformed" THEN Raised ELSE Returned(Json(body))

\* lines 44-47, the body of the try block of get_location_coords
GeocodeTry(outcome) ==
    IF outcome.kind = "raises" THEN Raised
    ELSE IF outcome.kind = "found" THEN Returned(outcome.location)
    ELSE Returned(NoneNone)

\* the body of the try block of the three HTTP wrappers
HttpTry(outcome) ==
    IF outcome.kind = "raises" THEN Raised
    ELSE IF outcome.status_code = 200 THEN DecodeJson(outcome.body)
    ELSE Returned(None)

get_location_coords(outcome)   == Except(GeocodeTry(outcome), NoneNone)
fetch_trails_from_osm(outcome) == Except(HttpTry(outcome), None)
fetch_weather_data(outcome)    == Except(HttpTry(outcome), None)
fetch_air_quality(outcome)     == Except(HttpTry(outcome), None)

Uncached == [py |-> "uncached"]
NoCache  == [f \in Wrappers |-> [a \in Args(f) |-> Uncached]]
NoCall   == [fn |-> "none"]

\* @st.cache_data: a memoised value is returned without running the function;
\* otherwise the function runs, and its return value (not an exception) is
\* memoised.
CachedCall(f, a, outcome, result) ==
    IF cache[f][a] # Uncached
    THEN /\ call' = [fn |-> f, arg |-> a, hit |-> TRUE, outcome |-> outcome,
                     raised |-> FALSE, value |-> cache[f][a]]
         /\ UNCHANGED cache
    ELSE /\ call' = [fn |-> f, arg |-> a, hit |-> FALSE, outcome |-> outcome,
                     raised |-> result.raised, value |-> result.value]
         /\ cache' = IF result.raised THEN cache
                     ELSE [cache EXCEPT ![f][a] = result.value]

(***************************************************************************)
(* The Map & Trails tab, lines 336-370.                                    *)
(*                                                                         *)
(* osm_data is None or the decoded Overpass response: a dict that is       *)
(* empty, has other keys but no 'elements', or has an 'elements' list.     *)
(* An element is named by what the loop does with it: a way, a node tagged *)
(* camp_site, shelter or spring, or another node.  Every script run starts *)
(* with a fresh namespace, so trail_count is unbound until line 342 runs.  *)
(***************************************************************************)
ElementKinds == {"way", "camp_site", "shelter", "spring", "node"}

\* elements[:20]
ElementLimit == 20

EmptyDict      == [py |-> "dict", keys |-> {}, elements |-> <<>>]
NoElementsDict == [py |-> "dict", keys |-> {"remark"}, elements |-> <<>>]
ElementsDict(es) ==
    [py |-> "dict", keys |-> {"version", "elements"}, elements |-> es]

Run(kind, n) == [i \in 1..n |-> kind]

OsmResponses ==
    {None, EmptyDict, NoElementsDict} \cup
    {ElementsDict(Run(k1, n1) \o Run(k2, n2)) :
        k1 \in ElementKinds, k2 \in ElementKinds,
        n1 \in 0..MaxRun, n2 \in 0..MaxRun}

\* truth value of osm_data in `if osm_data`
OsmTruthy(o) == o.py = "dict" /\ o.keys # {}

\* truth value of osm_data.get('elements')
ElementsTruthy(o) == "elements" \in o.keys /\ o.elements # <<>>

\* the ways counted by the loop over es
RECURSIVE CountWays(_)
CountWays(es) ==
    IF es = <<>> THEN 0
    ELSE (IF Head(es) = "way" THEN 1 ELSE 0) + CountWays(Tail(es))

\* the popups of the markers the loop adds for es
RECURSIVE Popups(_)
Popups(es) ==
    IF es = <<>> THEN <<>>
    ELSE (CASE Head(es) = "camp_site" -> <<"Campsite">>
            [] Head(es) = "shelter"   -> <<"Shelter">>
            [] Head(es) = "spring"    -> <<"Water Source">>
            [] OTHER                  -> <<>>) \o Popups(Tail(es))

NotShown  == [kind |-> "nothing"]
Info(n)   == [kind |-> "info", trails |-> n]
NameError == [kind |-> "NameError", name |-> "trail_count"]

NoMapPass ==
    /\ osm_data = None
    /\ trail_count = <<>>
    /\ markers = <<>>
    /\ shown = NotShown

(***************************************************************************)
(* create_daily_itinerary                                                  *)
(***************************************************************************)
\* avg_daily_distance = total_distance / trip_days
AvgDailyDistance(dist, days) == Rat(dist, days)

\* the deviation added on every day, the sign factor dropped
DayDistanceNoAlternation(avg, d) == Rat(10 * avg.num + avg.num, 10 * avg.den)

\* avg_daily_distance + ((-1)**day * avg_daily_distance * 0.1), unrounded
DayDistance(avg, d) ==
    Rat(10 * avg.num + MinusOnePow(d) * avg.num, 10 * avg.den)

\* avg_daily_distance / 3.5, in tenths of an hour (distance is in tenths of km)
DayHours(avg) == Rat(2 * avg.num, 7 * avg.den)

\* f"Campsite {day}" if not waypoints else f"Waypoint {day}"
CampsiteLabel(wp, d) ==
    IF ~wp THEN "Campsite " \o ToString(d) ELSE "Waypoint " \o ToString(d)

\* "Stream/Spring available" if day % 2 == 0 else "Carry water"
WaterSources(d) ==
    IF d % 2 = 0 THEN "Stream/Spring available" ELSE "Carry water"

\* the two note tests as independent ifs instead of if / elif
DayNotesBothTests(d, days) ==
    (IF d = 1 THEN <<"Start early to beat crowds">> ELSE <<>>)
    \o (IF d = days THEN <<"Final day - arrange pickup/transport">> ELSE <<>>)

\* the day-specific notes appended to the fresh empty list (if / elif)
DayNotes(d, days) ==
    IF d = 1 THEN <<"Start early to beat crowds">>
    ELSE IF d = days THEN <<"Final day - arrange pickup/transport">>
    ELSE <<>>

\* the day_data dictionary, once the two round() calls have returned
DayData(d, days, wp, dist, hours) ==
    [day             |-> d,
     distance_km     |-> dist,
     estimated_hours |-> hours,
     campsite        |-> CampsiteLabel(wp, d),
     water_sources   |-> WaterSources(d),
     notes           |-> DayNotes(d, days)]

\* the loop stopping one day early: range(1, trip_days)
InRangeShort(d, days) == d < days

\* day is still inside range(1, trip_days + 1)
InRange(d, days) == d <= days

(***************************************************************************)
(* generate_gear_recommendations                                           *)
(*                                                                         *)
(* weather_data is None, the empty dict, or a dict whose 'daily' entry     *)
(* holds the per-day lists; a key that is missing is read through          *)
(* .get(key, []) and is the same as an empty list.  Temperatures and       *)
(* precipitation are whole degrees and millimetres.  Item texts are the    *)
(* source's, without the degree sign.                                      *)
(***************************************************************************)
Categories == {"Essential", "Clothing", "Shelter & Sleep",
               "Cooking & Hydration", "Navigation & Safety",
               "Wildlife Protection"}

Seasons  == {"spring", "summer", "fall", "winter"}
Terrains == {"mixed", "alpine", "forest", "desert", "coastal"}

MinTempValues == {-5, 5, 15}
MaxTempValues == {20}
PrecipValues  == {10, 11}

SeqsUpTo(S, n) == UNION {[1..k -> S] : k \in 0..n}

NoWeather    == [kind |-> "None"]
EmptyWeather == [kind |-> "empty dict"]
DictWeather(mins, maxs, precs) ==
    [kind |-> "dict",
     daily |-> [temperature_2m_min |-> mins,
                temperature_2m_max |-> maxs,
                precipitation_sum  |-> precs]]

WeatherInputs ==
    {NoWeather, EmptyWeather} \cup
    {DictWeather(mins, maxs, precs) :
        mins  \in SeqsUpTo(MinTempValues, MaxLen),
        maxs  \in SeqsUpTo(MaxTempValues, MaxLen),
        precs \in SeqsUpTo(PrecipValues, MaxLen)}

\* truth value of weather_data in `if weather_data:`
Truthy(w) == w.kind = "dict"

\* seq[:n]
Slice(seq, n) == SubSeq(seq, 1, IF n < Len(seq) THEN n ELSE Len(seq))

\* sum(seq)
RECURSIVE Sum(_)
Sum(seq) == IF seq = <<>> THEN 0 ELSE Head(seq) + Sum(Tail(seq))

\* sum(temps[:trip_days]) / len(temps[:trip_days]) if temps else default
AverageOr(temps, days, default) ==
    IF temps # <<>> THEN Rat(Sum(Slice(temps, days)), Len(Slice(temps, days)))
    ELSE Rat(default, 1)

\* the fallback temperature taken as 0 instead of 10
AvgMinZeroDefault(w, days) ==
    IF Truthy(w) THEN AverageOr(w.daily.temperature_2m_min, days, 0)
    ELSE Rat(0, 1)

AvgMin(w, days) ==
    IF Truthy(w) THEN AverageOr(w.daily.temperature_2m_min, days, 10)
    ELSE Rat(10, 1)

AvgMax(w, days) ==
    IF Truthy(w) THEN AverageOr(w.daily.temperature_2m_max, days, 20)
    ELSE Rat(20, 1)

\* the sum taken over every forecast day instead of the first trip_days
TotalPrecipAllDays(w, days) ==
    IF Truthy(w) THEN Sum(w.daily.precipitation_sum) ELSE 0

TotalPrecip(w, days) ==
    IF Truthy(w) THEN Sum(Slice(w.daily.precipitation_sum, days)) ELSE 0

\* x < k for a rational x with positive denominator
Less(x, k) == x.num < k * x.den

\* gear_list[key] = items: sets the key, creating it when it is missing
Assign(g, key, items) ==
    [k \in DOMAIN g \cup {key} |-> IF k = key THEN items ELSE g[k]]

\* gear_list[key].extend(items)
Extend(g, key, items) == [g EXCEPT ![key] = @ \o items]

InitialGearList == [c \in Categories |-> <<>>]

EssentialItems(days) ==
    <<"Backpack (50-65L for " \o ToString(days) \o " days)",
      "First aid kit (wilderness rated)",
      "Multi-tool or knife",
      "Headlamp + spare batteries",
      "Emergency whistle",
      "Fire starter (waterproof matches/lighter)">>

ColdTier ==
    <<"4-season tent (MSR Access 2 or similar)",
      "Sleeping bag rated to -10C (Western Mountaineering Alpinlite)",
      "Insulated sleeping pad (R-value 5+, Thermarest XTherm)">>

ThreeSeasonTier ==
    <<"3-season tent (Big Agnes Copper Spur HV UL2)",
      "Sleeping bag rated to 0C (REI Magma 15)",
      "Sleeping pad (R-value 3-4, Nemo Tensor)">>

SummerTier ==
    <<"Ultralight tent or tarp (Zpacks Duplex)",
      "Summer quilt (20C rating, Enlightened Equipment)",
      "Lightweight pad (R-value 2-3, Sea to Summit Ultralight)">>

DownJacket      == "Down jacket (800+ fill, Arc'teryx Cerium or similar)"
SyntheticJacket == "Synthetic insulated jacket (Patagonia Nano Puff)"

\* the band tests written with <= in place of <
ShelterAndInsulationInclusive(g, amin) ==
    IF ~Less(amin, 0) /\ amin.num # 0
    THEN IF ~Less(amin, 10) /\ amin.num # 10 * amin.den
         THEN Extend(g, "Shelter & Sleep", SummerTier)
         ELSE Extend(Extend(g, "Shelter & Sleep", ThreeSeasonTier),
                     "Clothing", <<SyntheticJacket>>)
    ELSE Extend(Extend(g, "Shelter & Sleep", ColdTier),
                "Clothing", <<DownJacket>>)

\* the summer band given an insulation item like the other two bands
ShelterAndInsulationAllBands(g, amin) ==
    IF Less(amin, 0)
    THEN Extend(Extend(g, "Shelter & Sleep", ColdTier),
                "Clothing", <<DownJacket>>)
    ELSE IF Less(amin, 10)
    THEN Extend(Extend(g, "Shelter & Sleep", ThreeSeasonTier),
                "Clothing", <<SyntheticJacket>>)
    ELSE Extend(Extend(g, "Shelter & Sleep", SummerTier),
                "Clothing", <<SyntheticJacket>>)

\* lines 165-185: shelter tier and insulation item by temperature band
ShelterAndInsulation(g, amin) ==
    IF Less(amin, 0)
    THEN Extend(Extend(g, "Shelter & Sleep", ColdTier),
                "Clothing", <<DownJacket>>)
    ELSE IF Less(amin, 10)
    THEN Extend(Extend(g, "Shelter & Sleep", ThreeSeasonTier),
                "Clothing", <<SyntheticJacket>>)
    ELSE Extend(g, "Shelter & Sleep", SummerTier)

\* 'essential' if total_precip > 20 else 'recommended'
RainWording(precip) == IF precip > 20 THEN "essential" ELSE "recommended"

RainJacket(word) == "Rain jacket (Gore-Tex, " \o word \o ")"

ClothingBase(precip) ==
    <<"Merino wool base layer (Smartwool 150)",
      "Hiking pants (convertible, Prana Stretch Zion)",
      "Moisture-wicking t-shirts (2-3)",
      RainJacket(RainWording(precip)),
      "Fleece or soft-shell mid-layer",
      "Sun hat with brim",
      "Hiking socks (merino wool, 3-4 pairs, Darn Tough)">>

ColdClothing ==
    <<"Insulated gloves (OR Versaliner)",
      "Warm hat (merino or fleece beanie)",
      "Long underwear (merino wool bottoms)">>

\* lines 198-203
ColdClothingStep(g, amin) ==
    IF Less(amin, 5) THEN Extend(g, "Clothing", ColdClothing) ELSE g

\* the quotient rounded down: trip_days // 3
FuelCanistersFloor(days) == days \div 3

\* math.ceil(trip_days / 3)
FuelCanisters(days) == (days + 2) \div 3

CookingItems(days) ==
    <<"Lightweight stove (MSR PocketRocket or Jetboil)",
      "Fuel canisters (" \o ToString(FuelCanisters(days)) \o " x 110g)",
      "Titanium pot (750ml minimum)",
      "Spork or lightweight utensils",
      "Water filtration (Sawyer Squeeze or Katadyn BeFree)",
      "Water bottles or hydration bladder (3L capacity)",
      "Water purification tablets (backup)">>

NavigationItems ==
    <<"Topographic maps (waterproof/laminated)",
      "Compass (Silva or Suunto)",
      "GPS device or smartphone with offline maps",
      "Emergency shelter (SOL bivy or space blanket)",
      "Paracord (15m minimum)",
      "Duct tape (wrapped on trekking poles)">>

WildlifeItems ==
    <<"Bear canister (BearVault BV500) or rope for hanging",
      "Bear spray (if in grizzly country)",
      "Insect repellent (DEET or Picaridin)",
      "Head net (if heavy bug season)">>

\* the wildlife list stored under a key that is not one of the six
WildlifeStepOtherKey(g, s) ==
    IF s \in {"spring", "summer", "fall"}
    THEN Assign(g, "Wildlife", WildlifeItems) ELSE g

\* the season test leaving out fall
WildlifeStepNoFall(g, s) ==
    IF s \in {"spring", "summer"}
    THEN Assign(g, "Wildlife Protection", WildlifeItems) ELSE g

\* lines 226-233
WildlifeStep(g, s) ==
    IF s \in {"spring", "summer", "fall"}
    THEN Assign(g, "Wildlife Protection", WildlifeItems) ELSE g

\* lines 136-143 and 155-235: the dictionary the function returns
GearList(amin, precip, s, days) ==
    LET g0 == InitialGearList
        g1 == Assign(g0, "Essential", EssentialItems(days))
        g2 == ShelterAndInsulation(g1, amin)
        g3 == Extend(g2, "Clothing", ClothingBase(precip))
        g4 == ColdClothingStep(g3, amin)
        g5 == Assign(g4, "Cooking & Hydration", CookingItems(days))
        g6 == Assign(g5, "Navigation & Safety", NavigationItems)
    IN  WildlifeStep(g6, s)

NoGear == <<>>

InitGear ==
    /\ pc = "gear_call"
    /\ weather_data \in WeatherInputs
    /\ season \in Seasons
    /\ trip_days \in 1..MaxDays
    /\ terrain \in Terrains
    /\ avg_min = Rat(0, 1)
    /\ avg_max = Rat(0, 1)
    /\ total_precip = 0
    /\ gear_list = NoGear
    /\ total_distance = 0
    /\ waypoints = FALSE
    /\ avg_daily_distance = Rat(0, 1)
    /\ day = 0
    /\ itinerary = <<>>
    /\ cache = NoCache
    /\ call = NoCall
    /\ NoMapPass

\* the upper end of the "Trip Duration (days)" slider
SliderMaxDays == 14

\* the weather the whole slider range is run with
SliderWeather ==
    {NoWeather, EmptyWeather, DictWeather(<<-5>>, <<20>>, <<11>>)}

\* a call with any trip_days the slider offers
InitGearAllDays ==
    /\ pc = "gear_call"
    /\ weather_data \in SliderWeather
    /\ season \in Seasons
    /\ trip_days \in 1..SliderMaxDays
    /\ terrain \in Terrains
    /\ avg_min = Rat(0, 1)
    /\ avg_max = Rat(0, 1)
    /\ total_precip = 0
    /\ gear_list = NoGear
    /\ total_distance = 0
    /\ waypoints = FALSE
    /\ avg_daily_distance = Rat(0, 1)
    /\ day = 0
    /\ itinerary = <<>>
    /\ cache = NoCache
    /\ call = NoCall
    /\ NoMapPass

\* the whole of generate_gear_recommendations, lines 134-235
GenerateGear ==
    /\ pc = "gear_call"
    /\ avg_min' = AvgMin(weather_data, trip_days)
    /\ avg_max' = AvgMax(weather_data, trip_days)
    /\ total_precip' = TotalPrecip(weather_data, trip_days)
    /\ gear_list' = GearList(avg_min', total_precip', season, trip_days)
    /\ pc' = "gear_done"
    /\ UNCHANGED <<weather_data, season, terrain>>
    /\ UNCHANGED <<total_distance, trip_days, waypoints, avg_daily_distance,
                   day, itinerary>>
    /\ UNCHANGED fetchVars
    /\ UNCHANGED mapVars

NextGear == GenerateGear

SpecGear == InitGear /\ [][NextGear]_vars

SpecGearAllDays == InitGearAllDays /\ [][NextGear]_vars

InitItin ==
    /\ pc = "itin_call"
    /\ total_distance \in 0..MaxDist
    /\ trip_days \in 1..MaxDays
    /\ waypoints \in BOOLEAN
    /\ avg_daily_distance = Rat(0, 1)
    /\ day = 0
    /\ itinerary = <<>>
    /\ weather_data = NoWeather
    /\ season = "summer"
    /\ terrain = "mixed"
    /\ avg_min = Rat(0, 1)
    /\ avg_max = Rat(0, 1)
    /\ total_precip = 0
    /\ gear_list = NoGear
    /\ cache = NoCache
    /\ call = NoCall
    /\ NoMapPass

\* lines 239-240 and the first evaluation of range(1, trip_days + 1)
ItinEnter ==
    /\ pc = "itin_call"
    /\ avg_daily_distance' = AvgDailyDistance(total_distance, trip_days)
    /\ itinerary' = <<>>
    /\ day' = 1
    /\ pc' = "itin_loop"
    /\ UNCHANGED <<total_distance, trip_days, waypoints>>
    /\ UNCHANGED gearVars
    /\ UNCHANGED fetchVars
    /\ UNCHANGED mapVars

\* one iteration of the for loop, lines 242-258
ItinDay ==
    /\ pc = "itin_loop"
    /\ InRange(day, trip_days)
    /\ \E dist \in RoundSet(DayDistance(avg_daily_distance, day)),
          hours \in RoundSet(DayHours(avg_daily_distance)) :
          itinerary' = Append(itinerary,
                              DayData(day, trip_days, waypoints, dist, hours))
    /\ day' = day + 1
    /\ UNCHANGED <<pc, total_distance, trip_days, waypoints, avg_daily_distance>>
    /\ UNCHANGED gearVars
    /\ UNCHANGED fetchVars
    /\ UNCHANGED mapVars

\* the range is exhausted: return itinerary, line 260
ItinReturn ==
    /\ pc = "itin_loop"
    /\ ~InRange(day, trip_days)
    /\ pc' = "itin_done"
    /\ UNCHANGED itinVars
    /\ UNCHANGED gearVars
    /\ UNCHANGED fetchVars
    /\ UNCHANGED mapVars

NextItin == ItinEnter \/ ItinDay \/ ItinReturn

SpecItin == InitItin /\ [][NextItin]_vars

(***************************************************************************)
(* Calls of the fetch wrappers, in any order and with any outcome.         *)
(***************************************************************************)
InitFetch ==
    /\ pc = "idle"
    /\ cache = NoCache
    /\ call = NoCall
    /\ NoMapPass
    /\ total_distance = 0
    /\ trip_days = 1
    /\ waypoints = FALSE
    /\ avg_daily_distance = Rat(0, 1)
    /\ day = 0
    /\ itinerary = <<>>
    /\ weather_data = NoWeather
    /\ season = "summer"
    /\ terrain = "mixed"
    /\ avg_min = Rat(0, 1)
    /\ avg_max = Rat(0, 1)
    /\ total_precip = 0
    /\ gear_list = NoGear

CallGetLocationCoords ==
    /\ pc = "idle"
    /\ \E a \in Args("get_location_coords"),
          o \in GeocodeOutcomes :
          CachedCall("get_location_coords", a, o, get_location_coords(o))
    /\ UNCHANGED <<pc, itinVars, gearVars, mapVars>>

CallFetchTrails ==
    /\ pc = "idle"
    /\ \E a \in Args("fetch_trails_from_osm"),
          o \in HttpOutcomes :
          CachedCall("fetch_trails_from_osm", a, o, fetch_trails_from_osm(o))
    /\ UNCHANGED <<pc, itinVars, gearVars, mapVars>>

CallFetchWeather ==
    /\ pc = "idle"
    /\ \E a \in Args("fetch_weather_data"),
          o \in HttpOutcomes :
          CachedCall("fetch_weather_data", a, o, fetch_weather_data(o))
    /\ UNCHANGED <<pc, itinVars, gearVars, mapVars>>

CallFetchAirQuality ==
    /\ pc = "idle"
    /\ \E a \in Args("fetch_air_quality"),
          o \in HttpOutcomes :
          CachedCall("fetch_air_quality", a, o, fetch_air_quality(o))
    /\ UNCHANGED <<pc, itinVars, gearVars, mapVars>>

NextFetch ==
    \/ CallGetLocationCoords
    \/ CallFetchTrails
    \/ CallFetchWeather
    \/ CallFetchAirQuality

SpecFetch == InitFetch /\ [][NextFetch]_vars

(***************************************************************************)
(* One pass over the Map & Trails tab.                                     *)
(***************************************************************************)
InitMap ==
    /\ pc = "map_fetch"
    /\ NoMapPass
    /\ cache = NoCache
    /\ call = NoCall
    /\ total_distance = 0
    /\ trip_days = 1
    /\ waypoints = FALSE
    /\ avg_daily_distance = Rat(0, 1)
    /\ day = 0
    /\ itinerary = <<>>
    /\ weather_data = NoWeather
    /\ season = "summer"
    /\ terrain = "mixed"
    /\ avg_min = Rat(0, 1)
    /\ avg_max = Rat(0, 1)
    /\ total_precip = 0
    /\ gear_list = NoGear

\* lines 337-338: osm_data = fetch_trails_from_osm(lat, lon, search_radius)
MapFetch ==
    /\ pc = "map_fetch"
    /\ osm_data' \in OsmResponses
    /\ pc' = "map_scan"
    /\ UNCHANGED <<trail_count, markers, shown>>
    /\ UNCHANGED <<itinVars, gearVars, fetchVars>>

\* lines 340-364: the guarded loop over the first 20 elements
MapScan ==
    /\ pc = "map_scan"
    /\ IF OsmTruthy(osm_data) /\ ElementsTruthy(osm_data)
       THEN /\ trail_count' =
                  <<CountWays(SubSeq(osm_data.elements, 1,
                       IF Len(osm_data.elements) < ElementLimit
                       THEN Len(osm_data.elements) ELSE ElementLimit))>>
            /\ markers' =
                  Popups(SubSeq(osm_data.elements, 1,
                       IF Len(osm_data.elements) < ElementLimit
                       THEN Len(osm_data.elements) ELSE ElementLimit))
       ELSE UNCHANGED <<trail_count, markers>>
    /\ pc' = "map_show"
    /\ UNCHANGED <<osm_data, shown>>
    /\ UNCHANGED <<itinVars, gearVars, fetchVars>>

\* lines 366-370: the map is displayed, then the message reads trail_count
MapInfo ==
    /\ pc = "map_show"
    /\ IF OsmTruthy(osm_data)
       THEN IF trail_count = <<>>
            THEN shown' = NameError /\ pc' = "map_error"
            ELSE shown' = Info(trail_count[1]) /\ pc' = "map_done"
       ELSE shown' = NotShown /\ pc' = "map_done"
    /\ UNCHANGED <<osm_data, trail_count, markers>>
    /\ UNCHANGED <<itinVars, gearVars, fetchVars>>

NextMap == MapFetch \/ MapScan \/ MapInfo

SpecMap == InitMap /\ [][NextMap]_vars

(***************************************************************************)
(* Properties of create_daily_itinerary.                                   *)
(***************************************************************************)
Contains(seq, x) == \E i \in 1..Len(seq) : seq[i] = x

StartNote == "Start early to beat crowds"
FinalNote == "Final day - arrange pickup/transport"

\* C1: the returned itinerary has exactly trip_days day plans and the 'day'
\* field of the i-th plan is i, so the days are 1, 2, ..., trip_days in order.
C1_DaysInOrder ==
    pc = "itin_done" =>
        /\ Len(itinerary) = trip_days
        /\ \A i \in 1..Len(itinerary) : itinerary[i].day = i

C1_Witness ==
    /\ pc = "itin_done"
    /\ trip_days = 3
    /\ Len(itinerary) = 3
    /\ itinerary[1].day = 1 /\ itinerary[2].day = 2 /\ itinerary[3].day = 3

\* C2 as stated: for every trip_days >= 1, trip_days = 1 included, day 1
\* carries the start note, the final day carries the final-day note and every
\* other day has no notes.
C2_NotesAsClaimed ==
    pc = "itin_done" =>
        \A i \in 1..Len(itinerary) :
            /\ (i = 1 => Contains(itinerary[i].notes, StartNote))
            /\ (i = trip_days => Contains(itinerary[i].notes, FinalNote))
            /\ (i # 1 /\ i # trip_days => itinerary[i].notes = <<>>)

\* C2 amended: day 1 carries exactly the start note; the final day carries
\* exactly the final-day note when trip_days >= 2; the single day of a one-day
\* trip carries the start note only; every other day has no notes.
C2_NotesElif ==
    pc = "itin_done" =>
        \A i \in 1..Len(itinerary) :
            /\ (i = 1 => itinerary[i].notes = <<StartNote>>)
            /\ (i = trip_days /\ trip_days >= 2
                    => itinerary[i].notes = <<FinalNote>>)
            /\ (i # 1 /\ i # trip_days => itinerary[i].notes = <<>>)

C2_Witness ==
    /\ pc = "itin_done"
    /\ trip_days = 1
    /\ Len(itinerary) = 1
    /\ itinerary[1].notes = <<StartNote>>

\* C3: the distance of day d is 0.9 * avgDaily on odd days and 1.1 * avgDaily
\* on even days, rounded to one decimal, avgDaily = total_distance / trip_days:
\* it lies within half a tenth of that value; a one-day trip whose 0.9 * total
\* is a whole number of tenths gets exactly that; 30 km over 3 days gives
\* 9.0, 11.0, 9.0.
C3_AlternatingDistance ==
    pc = "itin_done" =>
        /\ \A i \in 1..Len(itinerary) :
            LET factor == IF i % 2 = 1 THEN 9 ELSE 11
                d10    == itinerary[i].distance_km * 10 * trip_days
                exact  == factor * total_distance
                diff   == IF d10 >= exact THEN d10 - exact ELSE exact - d10
            IN  2 * diff <= 10 * trip_days
        /\ (trip_days = 1 /\ total_distance % 10 = 0
                => itinerary[1].distance_km * 10 = 9 * total_distance)
        /\ (trip_days = 3 /\ total_distance = 300
                => /\ itinerary[1].distance_km = 90
                   /\ itinerary[2].distance_km = 110
                   /\ itinerary[3].distance_km = 90)

C3_Witness ==
    /\ pc = "itin_done"
    /\ trip_days = 3
    /\ total_distance = 300
    /\ Len(itinerary) = 3
    /\ itinerary[1].distance_km = 90
    /\ itinerary[2].distance_km = 110

(***************************************************************************)
(* Properties of generate_gear_recommendations.                            *)
(***************************************************************************)
\* the sum of the first n values of seq, by index
RECURSIVE SumFirst(_, _)
SumFirst(seq, n) ==
    IF n = 0 \/ seq = <<>> THEN 0 ELSE seq[1] + SumFirst(Tail(seq), n - 1)

\* weather_data is None or holds no per-day record at all
NoRecords(w) ==
    \/ w.kind # "dict"
    \/ /\ w.daily.temperature_2m_min = <<>>
       /\ w.daily.temperature_2m_max = <<>>
       /\ w.daily.precipitation_sum = <<>>

\* C4: the returned mapping has exactly the six category keys, each mapped to
\* a list (possibly empty), whatever the weather, season, trip_days, terrain.
C4_SixKeys ==
    pc = "gear_done" =>
        /\ DOMAIN gear_list = Categories
        /\ \A c \in DOMAIN gear_list :
              DOMAIN gear_list[c] = 1..Len(gear_list[c])

C4_Witness ==
    /\ pc = "gear_done"
    /\ season = "winter"
    /\ weather_data = NoWeather
    /\ DOMAIN gear_list = Categories
    /\ gear_list["Wildlife Protection"] = <<>>
    /\ Len(gear_list["Essential"]) = 6

\* C5: Wildlife Protection is empty in winter and is exactly the fixed
\* four-item list in spring, summer and fall, whatever the other inputs.
C5_Wildlife ==
    pc = "gear_done" =>
        /\ (season = "winter" => gear_list["Wildlife Protection"] = <<>>)
        /\ (season \in {"spring", "summer", "fall"} =>
               /\ gear_list["Wildlife Protection"] = WildlifeItems
               /\ Len(gear_list["Wildlife Protection"]) = 4)

C5_Witness ==
    /\ pc = "gear_done"
    /\ season = "fall"
    /\ terrain = "desert"
    /\ weather_data.kind = "dict"
    /\ Len(gear_list["Wildlife Protection"]) = 4

\* C6: Shelter & Sleep is exactly the three items of one tier chosen by
\* avg_min alone: cold tier below 0, three-season tier from 0 (included) to
\* 10 (excluded), summer tier from 10 (included); with avg_min = -5 Clothing
\* contains the down jacket.
C6_ShelterBands ==
    pc = "gear_done" =>
        /\ Len(gear_list["Shelter & Sleep"]) = 3
        /\ (avg_min.num < 0 => gear_list["Shelter & Sleep"] = ColdTier)
        /\ (avg_min.num >= 0 /\ avg_min.num < 10 * avg_min.den =>
               gear_list["Shelter & Sleep"] = ThreeSeasonTier)
        /\ (avg_min.num >= 10 * avg_min.den =>
               gear_list["Shelter & Sleep"] = SummerTier)
        /\ (avg_min.num = -5 * avg_min.den =>
               Contains(gear_list["Clothing"], DownJacket))

C6_Witness ==
    /\ pc = "gear_done"
    /\ avg_min = Rat(-5, 1)
    /\ gear_list["Shelter & Sleep"] = ColdTier
    /\ Contains(gear_list["Clothing"], DownJacket)

\* the insulation item the claim attributes to a band
ClaimedInsulation(amin) ==
    IF amin.num < 0 THEN {<<DownJacket>>}
    ELSE IF amin.num < 10 * amin.den THEN {<<SyntheticJacket>>}
    ELSE {<<DownJacket>>, <<SyntheticJacket>>}

ColdIfBelowFive(amin) == IF amin.num < 5 * amin.den THEN ColdClothing ELSE <<>>

\* C7 as stated: in every band Clothing is one insulation item, then the
\* seven base items, then the three cold-weather items iff avg_min < 5; so it
\* has 8 items when avg_min >= 5 and 11 when avg_min < 5.
C7_ClothingAsClaimed ==
    pc = "gear_done" =>
        /\ \E ins \in ClaimedInsulation(avg_min) :
              gear_list["Clothing"] =
                  ins \o ClothingBase(total_precip) \o ColdIfBelowFive(avg_min)
        /\ Len(gear_list["Clothing"]) =
              IF avg_min.num < 5 * avg_min.den THEN 11 ELSE 8

\* C7 amended: Clothing is the band's insulation item when avg_min < 10 (down
\* jacket below 0, synthetic jacket from 0 to 10) and no insulation item when
\* avg_min >= 10, then the seven base items, then the three cold-weather
\* items iff avg_min < 5; so it has 11 items when avg_min < 5, 8 when
\* 5 <= avg_min < 10 and 7 when avg_min >= 10.
C7_ClothingLayers ==
    pc = "gear_done" =>
        LET ins == IF avg_min.num < 0 THEN <<DownJacket>>
                   ELSE IF avg_min.num < 10 * avg_min.den
                        THEN <<SyntheticJacket>>
                        ELSE <<>>
        IN  /\ gear_list["Clothing"] =
                  ins \o ClothingBase(total_precip) \o ColdIfBelowFive(avg_min)
            /\ Len(ClothingBase(total_precip)) = 7
            /\ Len(gear_list["Clothing"]) =
                  IF avg_min.num < 5 * avg_min.den THEN 11
                  ELSE IF avg_min.num < 10 * avg_min.den THEN 8
                  ELSE 7

C7_Witness ==
    /\ pc = "gear_done"
    /\ weather_data.kind = "dict"
    /\ avg_min = Rat(15, 1)
    /\ Len(gear_list["Clothing"]) = 7
    /\ ~Contains(gear_list["Clothing"], SyntheticJacket)
    /\ ~Contains(gear_list["Clothing"], DownJacket)

\* C8: with weather None or without any per-day record the function returns
\* what avg_min = 10, avg_max = 20, total_precip = 0 give: summer tier,
\* rain jacket "recommended", no cold-weather clothing; with minimum
\* temperatures present avg_min is the mean of the first trip_days of them.
C8_AbsentWeatherDefaults ==
    pc = "gear_done" =>
        /\ (NoRecords(weather_data) =>
               /\ avg_min = Rat(10, 1)
               /\ avg_max = Rat(20, 1)
               /\ total_precip = 0
               /\ gear_list["Shelter & Sleep"] = SummerTier
               /\ Contains(gear_list["Clothing"], RainJacket("recommended"))
               /\ ~Contains(gear_list["Clothing"], RainJacket("essential"))
               /\ \A i \in 1..Len(ColdClothing) :
                     ~Contains(gear_list["Clothing"], ColdClothing[i])
               /\ DOMAIN gear_list = Categories)
        /\ (weather_data.kind = "dict"
            /\ weather_data.daily.temperature_2m_min # <<>> =>
               LET mins == weather_data.daily.temperature_2m_min
                   n    == IF trip_days < Len(mins) THEN trip_days ELSE Len(mins)
               IN  /\ avg_min.den = n
                   /\ avg_min.num = SumFirst(mins, trip_days))

C8_Witness ==
    /\ pc = "gear_done"
    /\ weather_data = EmptyWeather
    /\ avg_min = Rat(10, 1)
    /\ gear_list["Shelter & Sleep"] = SummerTier
    /\ Contains(gear_list["Clothing"], RainJacket("recommended"))

\* C9: the rain jacket reads "essential" iff the sum of the first trip_days
\* precipitation values is strictly above 20 (0 when weather is absent), and
\* "recommended" otherwise; values of later days do not count.
C9_RainJacketWording ==
    pc = "gear_done" =>
        LET precip == IF weather_data.kind = "dict"
                      THEN SumFirst(weather_data.daily.precipitation_sum,
                                    trip_days)
                      ELSE 0
        IN  /\ Contains(gear_list["Clothing"], RainJacket("essential"))
                  <=> precip > 20
            /\ Contains(gear_list["Clothing"], RainJacket("recommended"))
                  <=> precip <= 20

\* exactly 20 mm over the trip, more on the following day
C9_Witness ==
    /\ pc = "gear_done"
    /\ weather_data.kind = "dict"
    /\ trip_days = 1
    /\ weather_data.daily.precipitation_sum = <<10, 11>>
    /\ Contains(gear_list["Clothing"], RainJacket("recommended"))

(***************************************************************************)
(* Properties of the fetch wrappers.                                       *)
(***************************************************************************)
Absent(f) == IF f = "get_location_coords" THEN NoneNone ELSE None

\* the collaborator's call succeeded: a location was found, or the response
\* has status 200 and a body that decodes
Succeeded(o) ==
    \/ o.kind = "found"
    \/ o.kind = "response" /\ o.status_code = 200 /\ o.body # "malformed"

Decoded(o) == IF o.kind = "found" THEN o.location ELSE Json(o.body)

\* C10: no wrapper call ends with an exception; a call that runs the
\* collaborator returns the absent value (None, or (None, None) for the
\* geocoder) whenever the collaborator raises, finds nothing, answers with a
\* status other than 200 or with an undecodable body, and returns the decoded
\* data exactly when the collaborator succeeded.
C10_FetchNeverRaises ==
    call.fn # "none" =>
        /\ ~call.raised
        /\ (~call.hit /\ ~Succeeded(call.outcome) =>
               call.value = Absent(call.fn))
        /\ (~call.hit /\ Succeeded(call.outcome) =>
               call.value = Decoded(call.outcome))
        /\ (call.hit => call.value = cache[call.fn][call.arg])

C10_Witness ==
    /\ call.fn = "fetch_trails_from_osm"
    /\ ~call.hit
    /\ call.outcome.kind = "raises"
    /\ ~call.raised
    /\ call.value = None
    /\ cache["get_location_coords"]["Atlantis"] = NoneNone
    /\ cache["fetch_weather_data"][<<37, -119>>] = Json("elements")

\* the fuel-canister item written for a quantity
FuelItem(q) == "Fuel canisters (" \o ToString(q) \o " x 110g)"

\* the smallest whole number of threes that covers days
CeilThird(days) == CHOOSE q \in 0..days : 3 * q >= days /\ 3 * (q - 1) < days

\* C11: for every trip_days in 1..14 the second Cooking & Hydration item is
\* the fuel-canister item with quantity ceil(trip_days / 3): 1 for 1..3 days,
\* 2 for 4..6, 3 for 7..9, 4 for 10..12, 5 for 13..14; the quantity is never
\* 0 and does not decrease as trip_days grows.
C11_FuelCanisters ==
    pc = "gear_done" =>
        /\ gear_list["Cooking & Hydration"][2] = FuelItem(CeilThird(trip_days))
        /\ gear_list["Cooking & Hydration"][2] # FuelItem(0)
        /\ gear_list["Cooking & Hydration"][2] =
              FuelItem(CASE trip_days <= 3  -> 1
                         [] trip_days <= 6  -> 2
                         [] trip_days <= 9  -> 3
                         [] trip_days <= 12 -> 4
                         [] OTHER           -> 5)
        /\ \A d \in 1..trip_days :
              /\ CookingItems(d)[2] = FuelItem(CeilThird(d))
              /\ CeilThird(d) >= 1
              /\ CeilThird(d) <= CeilThird(trip_days)

C11_Witness ==
    /\ pc = "gear_done"
    /\ trip_days = 13
    /\ gear_list["Cooking & Hydration"][2] = "Fuel canisters (5 x 110g)"

\* the numerators of the unrounded distances of days 1..n, added up; every
\* day's distance has the denominator 10 * avg.den
RECURSIVE UnroundedSum(_, _)
UnroundedSum(avg, n) ==
    IF n = 0 THEN 0 ELSE DayDistance(avg, n).num + UnroundedSum(avg, n - 1)

WaysAmongFirst(o) ==
    Cardinality({i \in 1..Len(o.elements) :
                    i <= 20 /\ o.elements[i] = "way"})

\* C13: whenever the pass has gone through the tab with a non-empty response
\* object, it has shown "Found N trails" with N the number of ways among the
\* first 20 elements, 0 when the response has no elements; trail_count is
\* bound when it is read.
C13_TrailCountDefined ==
    pc \in {"map_done", "map_error"} /\ OsmTruthy(osm_data) =>
        /\ shown = Info(WaysAmongFirst(osm_data))
        /\ trail_count # <<>>

=============================================================================
